---- MODULE Spec2Model ----
(***************************************************************************)
(* A model of pagmo::sga (include/pagmo/algorithms/sga.hpp): the           *)
(* constructor's parameter validation, set_seed, and evolve with its       *)
(* per-generation pipeline (stochastic re-evaluation, selection,           *)
(* crossover, mutation, evaluation, elitist reinsertion).                  *)
(*                                                                         *)
(* Conventions.                                                            *)
(*  - Vectors are functions over 0..n-1, so indices read as in the C++.    *)
(*  - Doubles are fixed-point integers in units of 1/One: the real 1.0 is  *)
(*    One, a coordinate is integral iff it is a multiple of One, and a     *)
(*    uniform real draw in [0,1) is an integer in 0..One-1.                *)
(*  - A NaN fitness is the distinguished value NaN; every other fitness    *)
(*    is >= 0.                                                             *)
(*  - The random engine m_e is a small linear congruential generator: a    *)
(*    deterministic function of its state, seeded from the seed.           *)
(***************************************************************************)
EXTENDS Integers, Sequences, FiniteSets, TLC

\* ------------------------------------------------------------------ bounds
\* Largest population size offered to evolve.
MaxNP == 4
\* Largest generation count an engine is constructed with in Spec.
MaxGen == 2
\* Engine seeds are 0..MaxSeed.
MaxSeed == 1
\* Input populations are generated from population seeds 0..MaxPopSeed.
MaxPopSeed == 1

\* ------------------------------------------------------- numeric carriers
\* Fixed-point unit: the double 1.0.
One == 8
\* A NaN fitness value.
NaN == 0 - 1
\* Fixed-point scale of the intermediate betaq in the SBX formulas.
QScale == 64
\* unsigned: the width of m_gen and of evolve's generation counter.
UIntMod == 8

Abs(a) == IF a < 0 THEN 0 - a ELSE a
Min2(a, b) == IF a < b THEN a ELSE b

RECURSIVE Pow(_, _)
Pow(b, k) == IF k = 0 THEN 1 ELSE b * Pow(b, k - 1)

\* floor of the k-th root of n >= 0, by bisection on lo..hi (lo^k <= n < (hi+1)^k)
RECURSIVE IRootIn(_, _, _, _)
IRootIn(n, k, lo, hi) ==
    IF lo >= hi THEN lo
    ELSE LET mid == (lo + hi + 1) \div 2
         IN  IF Pow(mid, k) <= n THEN IRootIn(n, k, mid, hi)
                                 ELSE IRootIn(n, k, lo, mid - 1)
IRoot(n, k) == IRootIn(n, k, 0, IF k = 2 THEN Min2(n, 46340) ELSE Min2(n, 1290))

\* ----------------------------------------------------------------- vectors
Size(v) == Cardinality(DOMAIN v)
Iota(n) == [k \in 0 .. n - 1 |-> k]
Swap(v, a, b) == [v EXCEPT ![a] = v[b], ![b] = v[a]]
Empty == [k \in {} |-> 0]
\* a copy of the vector v
Copy(v) == [k \in DOMAIN v |-> v[k]]

RECURSIVE SumTo(_, _)
SumTo(v, n) == IF n = 0 THEN 0 ELSE v[n - 1] + SumTo(v, n - 1)

\* ---------------------------------------------------------- random engine
RngMod == 1024
RngMul == 77
RngInc == 333
\* the engine state after one draw
RngNext(e) == (RngMul * e + RngInc) % RngMod
\* the raw value a draw from state e returns
RngOut(e) == RngNext(e) \div 8
\* m_e(seed) / m_e.seed(seed)
Seeded(seed) == (389 * seed + 71) % RngMod
\* std::uniform_int_distribution<>(a, b)(m_e)
UniformInt(a, b, e) == a + (RngOut(e) % (b - a + 1))
\* std::uniform_real_distribution<>(0., 1.)(m_e), in units of 1/One
Drng(e) == RngNext(e) \div (RngMod \div One)

\* ------------------------------------------------------------ comparisons
\* detail::less_than_f: NaN is greater than any number, NaNs are not less
less_than_f(a, b) ==
    IF a # NaN THEN (IF b = NaN THEN TRUE ELSE a < b) ELSE FALSE
\* operator< on doubles: false whenever an operand is NaN
LtDouble(a, b) == a # NaN /\ b # NaN /\ a < b
\* operator< on vector_double (std::lexicographical_compare)
RECURSIVE LexLess(_, _, _)
LexLess(a, b, k) ==
    IF k >= Size(a) \/ k >= Size(b) THEN k >= Size(a) /\ k < Size(b)
    ELSE IF LtDouble(a[k], b[k]) THEN TRUE
    ELSE IF LtDouble(b[k], a[k]) THEN FALSE
    ELSE LexLess(a, b, k + 1)
VecLess(a, b) == LexLess(a, b, 0)

\* std::sort of the indices 0..n-1 by less_than_f on vals. The order of
\* equivalent entries is the library's choice: tie names it.
SortRank(vals, a, tie) ==
    Cardinality({b \in DOMAIN vals :
        \/ less_than_f(vals[b], vals[a])
        \/ /\ ~less_than_f(vals[a], vals[b])
           /\ ~less_than_f(vals[b], vals[a])
           /\ IF tie = "stable" THEN b < a ELSE b > a})
SortIdx(vals, tie) ==
    [r \in DOMAIN vals |-> CHOOSE a \in DOMAIN vals : SortRank(vals, a, tie) = r]

\* ---------------------------------------------------------------- problem
\* The problems offered to evolve (the external pagmo::problem interface:
\* get_nx, get_bounds, get_nc, get_nf, is_stochastic, fitness).
Vec(t) == [k \in 0 .. Len(t) - 1 |-> t[k + 1]]
Problems ==
    [ sphere |-> [nx |-> 3, lb |-> Vec(<<0, 8, 0>>), ub |-> Vec(<<16, 24, 16>>),
                  target |-> Vec(<<8, 8, 16>>), nc |-> 0, nf |-> 1,
                  stochastic |-> FALSE, nanzone |-> FALSE],
      lognan |-> [nx |-> 2, lb |-> Vec(<<0, 0>>), ub |-> Vec(<<16, 16>>),
                  target |-> Vec(<<16, 0>>), nc |-> 0, nf |-> 1,
                  stochastic |-> FALSE, nanzone |-> TRUE],
      noisy  |-> [nx |-> 3, lb |-> Vec(<<0, 8, 8>>), ub |-> Vec(<<16, 8, 16>>),
                  target |-> Vec(<<0, 8, 8>>), nc |-> 0, nf |-> 1,
                  stochastic |-> TRUE, nanzone |-> FALSE],
      constr |-> [nx |-> 2, lb |-> Vec(<<0, 0>>), ub |-> Vec(<<16, 16>>),
                  target |-> Vec(<<8, 8>>), nc |-> 1, nf |-> 1,
                  stochastic |-> FALSE, nanzone |-> FALSE],
      multi  |-> [nx |-> 2, lb |-> Vec(<<0, 0>>), ub |-> Vec(<<16, 16>>),
                  target |-> Vec(<<8, 8>>), nc |-> 0, nf |-> 2,
                  stochastic |-> FALSE, nanzone |-> FALSE] ]

\* prob.fitness(x)[0] under problem seed pseed
FitnessValue(pr, pseed, x) ==
    LET base == SumTo([j \in DOMAIN x |-> Abs(x[j] - pr.target[j])], pr.nx)
    IN  IF pr.nanzone /\ x[0] = pr.lb[0] THEN NaN
        ELSE IF pr.stochastic THEN base + ((pseed + base) % 3)
        ELSE base
\* prob.fitness(x): a fitness vector of length nf
Fitness(pr, pseed, x) == [k \in 0 .. pr.nf - 1 |-> FitnessValue(pr, pseed, x)]

\* ------------------------------------------------------------- population
\* An input population of np individuals of problem pr, generated from the
\* population seed ps; kind "int" makes every coordinate integral, kind
\* "frac" leaves the fixed-point draws as they are. Cached fitness is the
\* problem's fitness under problem seed 0.
PopHash(ps, i, j) == ((ps + 1) * (7 * i + 3 * j + 5) + ps * ps * (i + 1) + 11 * i * j) % 37
PopCoord(pr, ps, kind, i, j) ==
    LET v == pr.lb[j] + (PopHash(ps, i, j) % (pr.ub[j] - pr.lb[j] + 1))
    IN  IF kind = "int" THEN (v \div One) * One ELSE v
PopX(pr, np, ps, kind) ==
    [i \in 0 .. np - 1 |-> [j \in 0 .. pr.nx - 1 |-> PopCoord(pr, ps, kind, i, j)]]
MakePop(pr, np, ps, kind) ==
    LET X == PopX(pr, np, ps, kind)
    IN  [x |-> X, f |-> [i \in 0 .. np - 1 |-> Fitness(pr, 0, X[i])]]
\* population::set_xf(i, x, f): replaces one individual, evaluates nothing
set_xf(p, i, x, f) == [x |-> [p.x EXCEPT ![i] = x], f |-> [p.f EXCEPT ![i] = f]]

\* ------------------------------------------------------------ constructor
selection_map == [tournament |-> "TOURNAMENT", truncated |-> "TRUNCATED"]
crossover_map == [exponential |-> "EXPONENTIAL", binomial |-> "BINOMIAL",
                  sbx |-> "SBX", single |-> "SINGLE"]
mutation_map == [gaussian |-> "GAUSSIAN", uniform |-> "UNIFORM",
                 polynomial |-> "POLYNOMIAL"]

\* the constructor's cr check
CrCheckFails(cr) == cr > One \/ cr < 0
\* Faulty variant of CtorThrows: the width check of param_m for gaussian and
\* uniform mutation is missing
CtorThrowsNoWidthCheck(p) ==
    \/ CrCheckFails(p.cr)
    \/ p.eta_c < One \/ p.eta_c >= 100 * One
    \/ p.m < 0 \/ p.m > One
    \/ p.param_s = 0
    \/ (p.mutation # "gaussian" /\ p.mutation # "uniform" /\ p.mutation # "polynomial")
    \/ (p.selection # "truncated" /\ p.selection # "tournament")
    \/ (p.crossover # "exponential" /\ p.crossover # "binomial"
            /\ p.crossover # "sbx" /\ p.crossover # "single")
    \/ (p.mutation = "polynomial" /\ (p.param_m < One \/ p.param_m > 100 * One))
\* the constructor throws std::invalid_argument
CtorThrows(p) ==
    \/ CrCheckFails(p.cr)
    \/ p.eta_c < One \/ p.eta_c >= 100 * One
    \/ p.m < 0 \/ p.m > One
    \/ p.param_s = 0
    \/ (p.mutation # "gaussian" /\ p.mutation # "uniform" /\ p.mutation # "polynomial")
    \/ (p.selection # "truncated" /\ p.selection # "tournament")
    \/ (p.crossover # "exponential" /\ p.crossover # "binomial"
            /\ p.crossover # "sbx" /\ p.crossover # "single")
    \/ (p.mutation = "polynomial" /\ (p.param_m < One \/ p.param_m > 100 * One))
    \/ (p.mutation # "polynomial" /\ (p.param_m < 0 \/ p.param_m > One))
\* the data members of a constructed engine (m_e and m_seed are variables)
CtorFields(p) ==
    [m_gen |-> p.gen, m_cr |-> p.cr, m_eta_c |-> p.eta_c, m_m |-> p.m,
     m_param_m |-> p.param_m, m_elitism |-> p.elitism, m_param_s |-> p.param_s,
     m_int_dim |-> p.int_dim,
     m_selection |-> selection_map[p.selection],
     m_crossover |-> crossover_map[p.crossover],
     m_mutation |-> mutation_map[p.mutation]]
\* the fields of an engine that does not exist (yet, or because construction threw)
NoAlg ==
    [m_gen |-> 0, m_cr |-> 0, m_eta_c |-> 0, m_m |-> 0, m_param_m |-> 0,
     m_elitism |-> 0, m_param_s |-> 0, m_int_dim |-> 0, m_selection |-> "none",
     m_crossover |-> "none", m_mutation |-> "none"]

\* -------------------------------------------------------------- selection
\* the partial Fisher-Yates shuffle of one tournament (i = i0 .. param_s-1)
RECURSIVE FisherYates(_, _, _, _)
FisherYates(best_idxs, i, param_s, e) ==
    IF i >= param_s THEN [idx |-> best_idxs, e |-> e]
    ELSE LET index == UniformInt(i, Size(best_idxs) - 1, e)
         IN  FisherYates(Swap(best_idxs, index, i), i + 1, param_s, RngNext(e))
\* the scan for the entrant of minimum fitness (i = i0 .. param_s-1)
RECURSIVE FindWinner(_, _, _, _, _)
FindWinner(F, best_idxs, i, param_s, winner) ==
    IF i >= param_s THEN winner
    ELSE FindWinner(F, best_idxs, i + 1, param_s,
                    IF VecLess(F[best_idxs[i]], F[winner]) THEN best_idxs[i] ELSE winner)
\* one tournament per offspring slot j = j0 .. NP-1; log[j] records best_idxs as
\* the shuffle of tournament j left it (its first param_s entries are the entrants)
RECURSIVE Tournaments(_, _, _, _, _, _, _)
Tournaments(F, retval, log, best_idxs, j, param_s, e) ==
    IF j >= Size(retval) THEN [retval |-> retval, e |-> e, log |-> log]
    ELSE LET fy == FisherYates(best_idxs, 0, param_s, e)
             winner == FindWinner(F, fy.idx, 1, param_s, fy.idx[0])
         IN  Tournaments(F, [retval EXCEPT ![j] = winner], [log EXCEPT ![j] = Copy(fy.idx)],
                         fy.idx, j + 1, param_s, fy.e)
\* Faulty variant of Truncated: offspring slot i receives the i-th best index, with
\* no wrap at param_s
TruncatedNoWrap(F, param_s, tie) ==
    LET best_idxs == SortIdx([k \in DOMAIN F |-> F[k][0]], tie)
    IN  [i \in DOMAIN F |-> best_idxs[i]]
\* truncated selection
Truncated(F, param_s, tie) ==
    LET best_idxs == SortIdx([k \in DOMAIN F |-> F[k][0]], tie)
    IN  [i \in DOMAIN F |-> best_idxs[i % param_s]]
\* sga::perform_selection: the parent index of every offspring slot, and m_e after
perform_selection(F, a, e, tie) ==
    IF a.m_selection = "TRUNCATED"
    THEN [retval |-> Truncated(F, a.m_param_s, tie), e |-> e, log |-> Empty]
    ELSE Tournaments(F, Iota(Size(F)), [j \in DOMAIN F |-> Empty], Iota(Size(F)), 0,
                     a.m_param_s, e)

\* -------------------------------------------------------------- crossover
\* exponential: do { child[n] = parent2[n]; n = (n+1) % dim; L++; }
\*              while (drng(m_e) < m_cr && L < dim)
\* Faulty variant of ExpLoop: a while loop, whose test precedes the first copy
RECURSIVE ExpLoopTestFirst(_, _, _, _, _, _)
ExpLoopTestFirst(child, parent2, n, L, cr, e) ==
    LET dim == Size(child)
    IN  IF Drng(e) < cr /\ L < dim
        THEN ExpLoopTestFirst([child EXCEPT ![n] = parent2[n]], parent2, (n + 1) % dim,
                              L + 1, cr, RngNext(e))
        ELSE [child |-> child, e |-> RngNext(e), L |-> L]
RECURSIVE ExpLoop(_, _, _, _, _, _)
ExpLoop(child, parent2, n, L, cr, e) ==
    LET dim == Size(child)
        c1 == [child EXCEPT ![n] = parent2[n]]
    IN  IF Drng(e) < cr /\ L + 1 < dim
        THEN ExpLoop(c1, parent2, (n + 1) % dim, L + 1, cr, RngNext(e))
        ELSE [child |-> c1, e |-> RngNext(e), L |-> L + 1]
\* binomial: dim trials, the last one always copies
RECURSIVE BinLoop(_, _, _, _, _, _)
BinLoop(child, parent2, n, L, cr, e) ==
    LET dim == Size(child)
    IN  IF L >= dim THEN [child |-> child, e |-> e, L |-> L]
        ELSE BinLoop(IF Drng(e) < cr \/ L + 1 = dim
                        THEN [child EXCEPT ![n] = parent2[n]] ELSE child,
                     parent2, (n + 1) % dim, L + 1, cr, RngNext(e))
\* single point: std::copy of parent2's [n, dim) into the child
SingleCopy(child, parent2, n) ==
    [j \in DOMAIN child |-> IF j >= n THEN parent2[j] ELSE child[j]]
\* the switch on m_crossover for one child and its partner
CrossOne(child, parent2, a, e) ==
    LET dim == Size(child)
    IN  IF a.m_crossover = "EXPONENTIAL"
        THEN ExpLoop(child, parent2, UniformInt(0, dim - 1, e), 0, a.m_cr, RngNext(e))
        ELSE IF a.m_crossover = "BINOMIAL"
        THEN BinLoop(child, parent2, UniformInt(0, dim - 1, e), 0, a.m_cr, RngNext(e))
        ELSE [child |-> SingleCopy(child, parent2, UniformInt(0, dim, e)),
              e |-> RngNext(e), L |-> 0]
\* the first draw of a crossover kind: the coordinate n it starts from
StartOf(dim, a, e) ==
    IF a.m_crossover = "SINGLE" THEN UniformInt(0, dim, e) ELSE UniformInt(0, dim - 1, e)
\* Faulty variant of PartnerIdx: the position is drawn from 0 .. NP-1
PartnerIdxFromZero(all_idx, e) == UniformInt(0, Size(all_idx) - 1, e)
\* the position of the mating partner in all_idx
PartnerIdx(all_idx, e) == UniformInt(1, Size(all_idx) - 1, e)
\* the main loop of the non-sbx branch, i = i0 .. NP-1
\* log[i] records all_idx after the swap, the position drawn, the start
\* coordinate n and the count L of offspring i
RECURSIVE CrossLoop(_, _, _, _, _, _, _)
\* the loop after offspring i: r is what the crossover of offspring i made,
\* idx1 is all_idx after the swap
CrossStore(X, XCOPY, log, idx1, i, a, e, r) ==
    CrossLoop([X EXCEPT ![i] = r.child], XCOPY,
              [log EXCEPT ![i] = [all_idx |-> Copy(idx1), partner_idx |-> PartnerIdx(idx1, e),
                                  n |-> StartOf(Size(X[i]), a, RngNext(e)), L |-> r.L]],
              idx1, i + 1, a, r.e)
\* offspring i, given all_idx after the swap
CrossPair(X, XCOPY, log, idx1, i, a, e) ==
    CrossStore(X, XCOPY, log, idx1, i, a, e,
               CrossOne(X[i], XCOPY[idx1[PartnerIdx(idx1, e)]], a, RngNext(e)))
CrossLoop(X, XCOPY, log, all_idx, i, a, e) ==
    IF i >= Size(X) THEN [X |-> X, e |-> e, log |-> log]
    ELSE CrossPair(X, XCOPY, log, Swap(all_idx, 0, i), i, a, e)

\* all_idx after the swap made for offspring i, in a population of np
RECURSIVE AllIdxAt(_, _)
AllIdxAt(np, i) ==
    LET all_idx == IF i = 0 THEN Iota(np) ELSE AllIdxAt(np, i - 1)
    IN  Swap(all_idx, 0, i)
\* the index of the partner of offspring i when the engine is in state e
PartnerOf(np, i, e) == AllIdxAt(np, i)[PartnerIdx(AllIdxAt(np, i), e)]

\* std::shuffle(X.begin(), X.end(), m_e), i = i0 .. NP-1
RECURSIVE Shuffle(_, _, _)
Shuffle(X, i, e) ==
    IF i >= Size(X) THEN [X |-> X, e |-> e]
    ELSE Shuffle(Swap(X, i, UniformInt(0, i, e)), i + 1, RngNext(e))

\* betaq for one side of the simulated binary crossover, scaled by QScale:
\* beta = bN / bD, alpha = 2 - beta^-(eta_c + 1), rand01 = r / One
SbxBetaq(bN, bD, r, eta_c) ==
    LET k == (eta_c \div One) + 1
        aN == 2 * Pow(bN, k) - Pow(bD, k)
        aD == Pow(bN, k)
    IN  IF r * aN <= One * aD
        THEN IRoot((Pow(QScale, k) * r * aN) \div (One * aD), k)
        ELSE IRoot((Pow(QScale, k) * One * aD) \div (2 * One * aD - r * aN), k)
\* the bound clamps of c1 and c2
Clamp(c, lo, hi) == IF c < lo THEN lo ELSE IF c > hi THEN hi ELSE c
\* the two candidate values of coordinate i, after the clamps
SbxCandidates(y1, y2, yl, yu, r, eta_c) ==
    LET q1 == SbxBetaq((y2 - y1) + 2 * (y1 - yl), y2 - y1, r, eta_c)
        q2 == SbxBetaq((y2 - y1) + 2 * (yu - y2), y2 - y1, r, eta_c)
        c1 == ((y1 + y2) * QScale - q1 * (y2 - y1)) \div (2 * QScale)
        c2 == ((y1 + y2) * QScale + q2 * (y2 - y1)) \div (2 * QScale)
    IN  [c1 |-> Clamp(c1, yl, yu), c2 |-> Clamp(c2, yl, yu)]
\* the loop over the continuous part, i = i0 .. Dc-1
RECURSIVE SbxCont(_, _, _, _, _, _, _, _, _)
SbxCont(child1, child2, parent1, parent2, i, Dc, pr, a, e) ==
    IF i >= Dc THEN [child1 |-> child1, child2 |-> child2, e |-> e]
    ELSE LET e1 == RngNext(e)
             e2 == RngNext(e1)
             e3 == RngNext(e2)
         IN  IF 2 * Drng(e) <= One /\ parent1[i] # parent2[i] /\ pr.lb[i] # pr.ub[i]
             THEN LET y1 == Min2(parent1[i], parent2[i])
                      y2 == IF parent1[i] < parent2[i] THEN parent2[i] ELSE parent1[i]
                      c == SbxCandidates(y1, y2, pr.lb[i], pr.ub[i], Drng(e1), a.m_eta_c)
                      first == 2 * Drng(e2) <= One
                  IN  SbxCont([child1 EXCEPT ![i] = IF first THEN c.c1 ELSE c.c2],
                              [child2 EXCEPT ![i] = IF first THEN c.c2 ELSE c.c1],
                              parent1, parent2, i + 1, Dc, pr, a, e3)
             ELSE SbxCont(child1, child2, parent1, parent2, i + 1, Dc, pr, a, e1)
\* the three copy loops of the two-point crossover, given the ordered sites
TwoPoint(child, own, other, site1, site2, Di) ==
    [j \in DOMAIN child |->
        IF j < site1 THEN own[j]
        ELSE IF j < site2 THEN other[j]
        ELSE IF j < Di THEN own[j]
        ELSE child[j]]
\* the loop over the integer part, i = i0 .. D-1
\* hits counts the iterations whose coin flip succeeded
RECURSIVE SbxInt(_, _, _, _, _, _, _, _, _)
SbxInt(child1, child2, parent1, parent2, hits, i, Di, a, e) ==
    IF i >= Size(parent1) THEN [child1 |-> child1, child2 |-> child2, e |-> e, hits |-> hits]
    ELSE LET e1 == RngNext(e)
             e2 == RngNext(e1)
             e3 == RngNext(e2)
             s1 == UniformInt(0, Di - 1, e1)
             s2 == UniformInt(0, Di - 1, e2)
             site1 == Min2(s1, s2)
             site2 == IF s1 > s2 THEN s1 ELSE s2
         IN  IF Drng(e) <= a.m_cr
             THEN SbxInt(TwoPoint(child1, parent1, parent2, site1, site2, Di),
                         TwoPoint(child2, parent2, parent1, site1, site2, Di),
                         parent1, parent2, hits + 1, i + 1, Di, a, e3)
             ELSE SbxInt([child1 EXCEPT ![i] = parent1[i]],
                         [child2 EXCEPT ![i] = parent2[i]],
                         parent1, parent2, hits, i + 1, Di, a, e1)
\* what a call of sbx_crossover_impl returns and leaves: the children r of the
\* integer loop, m_e after, and for the record the parents and the children
\* cont as the simulated binary step left them
SbxResult(parent1, parent2, cont, r) ==
    [child1 |-> r.child1, child2 |-> r.child2, e |-> r.e, hits |-> r.hits,
     parent1 |-> parent1, parent2 |-> parent2,
     cont1 |-> cont.child1, cont2 |-> cont.child2]
\* the integer part of sbx_crossover_impl, run on the children cont
SbxIntPart(parent1, parent2, a, cont) ==
    SbxResult(parent1, parent2, cont,
              SbxInt(cont.child1, cont.child2, parent1, parent2, 0,
                     Size(parent1) - a.m_int_dim, a.m_int_dim, a, cont.e))
\* sga::sbx_crossover_impl: the two children and m_e after
sbx_crossover_impl(parent1, parent2, pr, a, e) ==
    LET D == Size(parent1)
        Di == a.m_int_dim
        Dc == D - Di
    IN  SbxIntPart(parent1, parent2, a,
                   IF Drng(e) <= a.m_cr
                   THEN SbxCont(parent1, parent2, parent1, parent2, 0, Dc, pr, a, RngNext(e))
                   ELSE [child1 |-> parent1, child2 |-> parent2, e |-> RngNext(e)])
\* the loop over the couples of the sbx branch, i = i0, i0+2, ..
\* log[i] records the call that made offspring i and i + 1
RECURSIVE SbxLoop(_, _, _, _, _, _)
\* the loop after the call for the couple i, i + 1 returned children
SbxStore(X, log, i, pr, a, children) ==
    SbxLoop([X EXCEPT ![i] = children.child1, ![i + 1] = children.child2],
            [log EXCEPT ![i] = children], i + 2, pr, a, children.e)
SbxLoop(X, log, i, pr, a, e) ==
    IF i >= Size(X) THEN [X |-> X, e |-> e, log |-> log]
    ELSE SbxStore(X, log, i, pr, a, sbx_crossover_impl(X[i], X[i + 1], pr, a, e))
\* sga::perform_crossover: X after crossover, and m_e after
perform_crossover(X, pr, a, e) ==
    IF a.m_crossover = "SBX"
    THEN LET sh == Shuffle(X, 1, e)
         IN  SbxLoop(sh.X, [i \in DOMAIN X |-> Empty], 0, pr, a, sh.e)
    ELSE CrossLoop(X, X, [i \in DOMAIN X |-> Empty], Iota(Size(X)), 0, a, e)

\* --------------------------------------------------------------- mutation
\* Faulty variant of MutateUniform: the coordinate mutated is the last one
MutateUniformLast(x, pr, dimc, e) ==
    LET j == Size(x) - 1
    IN  [x |-> [x EXCEPT ![j] = pr.lb[j] + ((Drng(e) * (pr.ub[j] - pr.lb[j])) \div One)],
         e |-> RngNext(e)]
\* the loop over the continuous part of one chromosome: its body runs for
\* j = 0 and leaves the loop
MutateUniform(x, pr, dimc, e) ==
    IF 0 < dimc
    THEN [x |-> [x EXCEPT ![0] = pr.lb[0] + ((Drng(e) * (pr.ub[0] - pr.lb[0])) \div One)],
          e |-> RngNext(e)]
    ELSE [x |-> x, e |-> e]
\* the main loop through the population, i = i0 .. NP-1
RECURSIVE MutLoop(_, _, _, _, _)
MutLoop(X, i, pr, a, e) ==
    IF i >= Size(X) THEN [X |-> X, e |-> e]
    ELSE IF a.m_mutation = "UNIFORM"
    THEN LET r == MutateUniform(X[i], pr, Size(X[0]) - a.m_int_dim, e)
         IN  MutLoop([X EXCEPT ![i] = r.x], i + 1, pr, a, r.e)
    ELSE MutLoop(X, i + 1, pr, a, e)
\* sga::perform_mutation: X after mutation, and m_e after
perform_mutation(X, pr, a, e) == MutLoop(X, 0, pr, a, e)

\* ------------------------------------------------------------ reinsertion
\* Faulty variant of ReinsertParents: the elites are read from the population being
\* overwritten instead of from pop_copy
RECURSIVE ReinsertParentsAliased(_, _, _, _, _)
ReinsertParentsAliased(p, pop_copy, best_parents, i, elitism) ==
    IF i >= elitism THEN p
    ELSE ReinsertParentsAliased(set_xf(p, i, p.x[best_parents[i]], p.f[best_parents[i]]),
                                pop_copy, best_parents, i + 1, elitism)
\* for (i = i0; i < m_elitism; ++i) pop.set_xf(i, pop_copy x/f of best_parents[i])
RECURSIVE ReinsertParents(_, _, _, _, _)
ReinsertParents(p, pop_copy, best_parents, i, elitism) ==
    IF i >= elitism THEN p
    ELSE ReinsertParents(set_xf(p, i, pop_copy.x[best_parents[i]], pop_copy.f[best_parents[i]]),
                         pop_copy, best_parents, i + 1, elitism)
\* Faulty variant of ReinsertOffspring: the offspring are appended to the population
\* instead of replacing slots i0 .. NP-1
ReinsertOffspringPush(p, X, F, best_offsprings, i) ==
    LET n == Size(p.x)
        m == n + (n - i)
    IN  [x |-> [k \in 0 .. m - 1 |-> IF k < n THEN p.x[k] ELSE X[best_offsprings[k - n + i]]],
         f |-> [k \in 0 .. m - 1 |-> IF k < n THEN p.f[k] ELSE F[best_offsprings[k - n + i]]]]
\* for (i = i0; i < pop.size(); ++i) pop.set_xf(i, XNEW/FNEW of best_offsprings[i])
RECURSIVE ReinsertOffspring(_, _, _, _, _)
ReinsertOffspring(p, X, F, best_offsprings, i) ==
    IF i >= Size(p.x) THEN p
    ELSE ReinsertOffspring(set_xf(p, i, X[best_offsprings[i]], F[best_offsprings[i]]),
                           X, F, best_offsprings, i + 1)
\* Faulty variant of Reinsertion: the parents are ranked with the comparison reversed,
\* so the elitism worst parents are kept
ReinsertionWorstParents(p, X, F, elitism, tie) ==
    LET asc == SortIdx([k \in DOMAIN p.f |-> p.f[k][0]], tie)
        best_parents == [k \in DOMAIN asc |-> asc[Size(asc) - 1 - k]]
        best_offsprings == SortIdx([k \in DOMAIN F |-> F[k][0]], tie)
    IN  ReinsertOffspring(ReinsertParents(p, p, best_parents, 0, elitism),
                          X, F, best_offsprings, elitism)
\* step 5 of a generation: the population after reinsertion
Reinsertion(p, X, F, elitism, tie) ==
    LET best_parents == SortIdx([k \in DOMAIN p.f |-> p.f[k][0]], tie)
        best_offsprings == SortIdx([k \in DOMAIN F |-> F[k][0]], tie)
    IN  ReinsertOffspring(ReinsertParents(p, p, best_parents, 0, elitism),
                          X, F, best_offsprings, elitism)

\* ------------------------------------------------------------------ state
VARIABLES
    pc,           \* where the engine is: "new", "ctor_failed", "idle", a step of
                  \* evolve ("gen_begin" .. "reinsert"), "done", "failed"
    params,       \* the arguments the constructor was called with
    alg,          \* the engine's data members, but for m_e and m_seed
    m_e,          \* the random engine
    m_seed,       \* the stored seed
    sortTie,      \* how the library's std::sort orders equivalent entries
    scen,         \* the problem and population evolve was called with
    pseed,        \* the seed of the population's problem
    fevals,       \* prob.get_fevals()
    pop,          \* evolve's population (its by-value argument, then its result)
    gi,           \* the generation counter i of evolve's loop
    XNEW,         \* evolve's XNEW
    FNEW,         \* evolve's FNEW
    selected_idx, \* evolve's selected_idx
    in0,          \* history: the population as passed to evolve
    e_in,         \* history: m_e on entry to evolve
    fev_in,       \* evolve's fevals0
    popPrev,      \* history: the population at the start of the last reinsertion
    XSEL,         \* history: XNEW after selection
    XCROSS,       \* history: XNEW after crossover
    tourn,        \* history: best_idxs after the shuffle of each tournament
    xlog,         \* history: what perform_crossover drew for each offspring
    ngen,         \* history: generations completed by this call of evolve
    calls,        \* history: calls of evolve made
    fresh,        \* history: m_e was seeded and no evolve has run since
    freshIn,      \* history: fresh, on entry to the current call of evolve
    ref           \* history: the first call of evolve made on a fresh engine

vars == <<pc, params, alg, m_e, m_seed, sortTie, scen, pseed, fevals, pop, gi,
          XNEW, FNEW, selected_idx, in0, e_in, fev_in, popPrev, XSEL, XCROSS,
          tourn, xlog, ngen, calls, fresh, freshIn, ref>>

engineVars == <<params, alg, m_e, m_seed, sortTie>>
callVars == <<scen, pseed, fevals, pop, gi, in0, e_in, fev_in, ngen, freshIn>>
stepVars == <<XNEW, FNEW, selected_idx, popPrev, XSEL, XCROSS, tourn, xlog>>

NoPop == [x |-> Empty, f |-> Empty]
NoScen == [prob |-> "none", np |-> 0, ps |-> 0, kind |-> "none"]
NoRef == [set |-> FALSE, seed |-> 0, tie |-> "none", scen |-> NoScen, out |-> NoPop]
NoParams == [gen |-> 0, cr |-> 0, eta_c |-> 0, m |-> 0, param_m |-> 0, elitism |-> 0,
             param_s |-> 0, mutation |-> "none", selection |-> "none",
             crossover |-> "none", int_dim |-> 0, seed |-> 0]

Idle == pc \in {"idle", "done", "failed"}
Prob == Problems[scen.prob]
NP == Size(pop.x)

InitOver(ties) ==
    /\ pc = "new"
    /\ params = NoParams
    /\ alg = NoAlg
    /\ m_e = 0
    /\ m_seed = 0
    /\ sortTie \in ties
    /\ scen = NoScen
    /\ pseed = 0
    /\ fevals = 0
    /\ pop = NoPop
    /\ gi = 0
    /\ XNEW = Empty
    /\ FNEW = Empty
    /\ selected_idx = Empty
    /\ in0 = NoPop
    /\ e_in = 0
    /\ fev_in = 0
    /\ popPrev = NoPop
    /\ XSEL = Empty
    /\ XCROSS = Empty
    /\ tourn = Empty
    /\ xlog = Empty
    /\ ngen = 0
    /\ calls = 0
    /\ fresh = FALSE
    /\ freshIn = FALSE
    /\ ref = NoRef

\* ---------------------------------------------------------------- actions
\* sga::sga(gen, cr, eta_c, m, param_m, elitism, param_s, mutation, selection,
\*          crossover, int_dim, seed)
Construct(p) ==
    /\ params' = p
    /\ IF CtorThrows(p)
       THEN /\ pc' = "ctor_failed"
            /\ UNCHANGED <<alg, m_e, m_seed, fresh>>
       ELSE /\ pc' = "idle"
            /\ alg' = CtorFields(p)
            /\ m_e' = Seeded(p.seed)
            /\ m_seed' = p.seed
            /\ fresh' = TRUE
    /\ UNCHANGED <<sortTie, callVars, stepVars, calls, ref>>

\* Faulty variant of SeedFields: the seed is stored but the engine is not reseeded
SeedFieldsKeepEngine(seed) == [e |-> m_e, seed |-> seed]
\* the engine state set_seed leaves: m_e.seed(seed); m_seed = seed
SeedFields(seed) == [e |-> Seeded(seed), seed |-> seed]
\* sga::set_seed(seed)
SetSeed(seed) ==
    /\ Idle
    /\ m_e' = SeedFields(seed).e
    /\ m_seed' = SeedFields(seed).seed
    /\ fresh' = TRUE
    /\ UNCHANGED <<pc, params, alg, sortTie, callVars, stepVars, calls, ref>>

\* Faulty variant of EvolveThrows: the parity check of sbx is missing
EvolveThrowsNoParity(pr, np, a) ==
    \/ pr.nc # 0
    \/ pr.nf # 1
    \/ np < 2
    \/ a.m_elitism > np
    \/ a.m_param_s > np
\* Faulty variant of EvolveThrows: an elitism equal to the population size is refused
EvolveThrowsStrict(pr, np, a) ==
    \/ pr.nc # 0
    \/ pr.nf # 1
    \/ np < 2
    \/ a.m_elitism >= np
    \/ a.m_param_s > np
    \/ (a.m_crossover = "SBX" /\ np % 2 # 0)
\* the preamble of evolve throws std::invalid_argument
EvolveThrows(pr, np, a) ==
    \/ pr.nc # 0
    \/ pr.nf # 1
    \/ np < 2
    \/ a.m_elitism > np
    \/ a.m_param_s > np
    \/ (a.m_crossover = "SBX" /\ np % 2 # 0)
\* whether the loop `for (i = 1u; i <= m_gen; ++i)` runs its body for counter i
LoopRuns(i, gen) == i <= gen
\* `if (m_gen == 0u) return pop;`
NothingToDo(gen) == gen = 0
\* the record of a finished call on a fresh engine
RefOf(out) == [set |-> TRUE, seed |-> m_seed, tie |-> sortTie, scen |-> scen, out |-> out]
\* evolve returns p
Return(p) ==
    /\ pc' = "done"
    /\ fresh' = FALSE
    /\ ref' = IF freshIn /\ ~ref.set THEN RefOf(p) ELSE ref

\* sga::evolve(pop): the call, the preamble and the gen == 0 exit
EvolveCall(sc) ==
    LET pr == Problems[sc.prob]
        input == MakePop(pr, sc.np, sc.ps, sc.kind)
    IN  /\ Idle
        /\ scen' = sc
        /\ pseed' = 0
        /\ fevals' = sc.np
        /\ fev_in' = sc.np
        /\ pop' = input
        /\ in0' = input
        /\ e_in' = m_e
        /\ freshIn' = fresh
        /\ ngen' = 0
        /\ gi' = 1
        /\ calls' = calls + 1
        /\ XNEW' = Empty
        /\ FNEW' = Empty
        /\ selected_idx' = Empty
        /\ popPrev' = NoPop
        /\ XSEL' = Empty
        /\ XCROSS' = Empty
        /\ tourn' = Empty
        /\ xlog' = Empty
        /\ IF EvolveThrows(pr, sc.np, alg)
           THEN pc' = "failed" /\ UNCHANGED <<fresh, ref>>
           ELSE IF NothingToDo(alg.m_gen) \/ ~LoopRuns(1, alg.m_gen)
           THEN /\ pc' = "done"
                /\ fresh' = FALSE
                /\ ref' = IF fresh /\ ~ref.set
                          THEN [set |-> TRUE, seed |-> m_seed, tie |-> sortTie,
                                scen |-> sc, out |-> input]
                          ELSE ref
           ELSE pc' = "gen_begin" /\ UNCHANGED <<fresh, ref>>
        /\ UNCHANGED engineVars

\* step 0 of a generation: a stochastic problem is reseeded from m_e and the
\* population re-evaluated; then XNEW and FNEW are copied from the population
GenBegin ==
    /\ pc = "gen_begin"
    /\ IF Prob.stochastic
       THEN /\ pseed' = RngOut(m_e)
            /\ m_e' = RngNext(m_e)
            /\ pop' = [x |-> pop.x,
                       f |-> [j \in DOMAIN pop.x |-> Fitness(Prob, RngOut(m_e), pop.x[j])]]
            /\ fevals' = fevals + NP
       ELSE UNCHANGED <<pseed, m_e, pop, fevals>>
    /\ XNEW' = pop'.x
    /\ FNEW' = pop'.f
    /\ pc' = "select"
    /\ UNCHANGED <<params, alg, m_seed, sortTie, scen, gi, selected_idx, in0, e_in,
                   fev_in, popPrev, XSEL, XCROSS, tourn, xlog, ngen, calls, fresh,
                   freshIn, ref>>

\* step 1: selection
Select ==
    /\ pc = "select"
    /\ LET r == perform_selection(FNEW, alg, m_e, sortTie)
           X == [i \in DOMAIN XNEW |-> pop.x[r.retval[i]]]
       IN  /\ selected_idx' = r.retval
           /\ m_e' = r.e
           /\ XNEW' = X
           /\ XSEL' = X
           /\ tourn' = r.log
    /\ pc' = "crossover"
    /\ UNCHANGED <<params, alg, m_seed, sortTie, callVars, FNEW, popPrev, XCROSS,
                   xlog, calls, fresh, ref>>

\* step 2: crossover
Crossover ==
    /\ pc = "crossover"
    /\ LET r == perform_crossover(XNEW, Prob, alg, m_e)
       IN  /\ XNEW' = r.X
           /\ XCROSS' = r.X
           /\ m_e' = r.e
           /\ xlog' = r.log
    /\ pc' = "mutate"
    /\ UNCHANGED <<params, alg, m_seed, sortTie, callVars, FNEW, selected_idx, popPrev,
                   XSEL, tourn, calls, fresh, ref>>

\* step 3: mutation
Mutate ==
    /\ pc = "mutate"
    /\ LET r == perform_mutation(XNEW, Prob, alg, m_e)
       IN  /\ XNEW' = r.X
           /\ m_e' = r.e
    /\ pc' = "evaluate"
    /\ UNCHANGED <<params, alg, m_seed, sortTie, callVars, FNEW, selected_idx, popPrev,
                   XSEL, XCROSS, tourn, xlog, calls, fresh, ref>>

\* Faulty variant of EvalOffspring: the fitness is that of the offspring before mutation
EvalOffspringPreMutation(X, i) == Fitness(Prob, pseed, XCROSS[i])
\* the fitness evolve stores for offspring i
EvalOffspring(X, i) == Fitness(Prob, pseed, X[i])
\* step 4: evaluation of the offspring
Evaluate ==
    /\ pc = "evaluate"
    /\ FNEW' = [i \in DOMAIN XNEW |-> EvalOffspring(XNEW, i)]
    /\ fevals' = fevals + Size(XNEW)
    /\ pc' = "reinsert"
    /\ UNCHANGED <<engineVars, scen, pseed, pop, gi, in0, e_in, fev_in, ngen, freshIn,
                   XNEW, selected_idx, popPrev, XSEL, XCROSS, tourn, xlog, calls,
                   fresh, ref>>

\* step 5: reinsertion, then ++i and the loop test
Reinsert ==
    /\ pc = "reinsert"
    /\ popPrev' = pop
    /\ pop' = Reinsertion(pop, XNEW, FNEW, alg.m_elitism, sortTie)
    /\ ngen' = ngen + 1
    /\ gi' = (gi + 1) % UIntMod
    /\ IF LoopRuns(gi', alg.m_gen)
       THEN pc' = "gen_begin" /\ UNCHANGED <<fresh, ref>>
       ELSE Return(pop')
    /\ UNCHANGED <<engineVars, scen, pseed, fevals, in0, e_in, fev_in, freshIn,
                   XNEW, FNEW, selected_idx, XSEL, XCROSS, tourn, xlog, calls>>

\* ------------------------------------------------------------- the inputs
Half == One \div 2
\* constructor arguments; eta_c and param_m take valid values for the kinds named
ParamRec(gen, cr, m, elitism, param_s, mutation, selection, crossover, int_dim, seed) ==
    [gen |-> gen, cr |-> cr, eta_c |-> One, m |-> m,
     param_m |-> IF mutation = "polynomial" THEN One ELSE Half,
     elitism |-> elitism, param_s |-> param_s, mutation |-> mutation,
     selection |-> selection, crossover |-> crossover, int_dim |-> int_dim,
     seed |-> seed]
ScenRec(prob, np, ps, kind) == [prob |-> prob, np |-> np, ps |-> ps, kind |-> kind]

\* engines that differ in elitism, selection and its parameter
SliceReinsertion ==
    [ps |-> {ParamRec(MaxGen, Half, 0, el, s, "uniform", sel, "single", 0, 0) :
                el \in 0 .. MaxNP, s \in 1 .. 2, sel \in {"tournament", "truncated"}},
     scs |-> {ScenRec(pr, n, q, "int") :
                pr \in {"sphere", "lognan"}, n \in 2 .. MaxNP, q \in 0 .. MaxPopSeed},
     ties |-> {"stable", "reversed"}]
\* engines that differ in the crossover and mutation kinds and their parameters
SliceOperators ==
    [ps |-> {ParamRec(MaxGen, cr, Half, 1, 2, mu, "tournament", xo, idim, sd) :
                cr \in {0, Half, One}, mu \in {"uniform", "gaussian", "polynomial"},
                xo \in {"exponential", "binomial", "single", "sbx"},
                idim \in 0 .. 2, sd \in 0 .. MaxSeed},
     scs |-> {ScenRec("sphere", n, q, kind) :
                n \in 2 .. MaxNP, q \in 0 .. MaxPopSeed, kind \in {"int", "frac"}},
     ties |-> {"stable"}]
\* engines on a stochastic problem
SliceStochastic ==
    [ps |-> {ParamRec(MaxGen, Half, Half, 1, 2, "uniform", "truncated", xo, 0, sd) :
                xo \in {"single", "sbx"}, sd \in 0 .. MaxSeed},
     scs |-> {ScenRec("noisy", n, q, "frac") : n \in 2 .. MaxNP, q \in 0 .. MaxPopSeed},
     ties |-> {"stable"}]
\* engines that differ in the selection kind, with the larger selection parameters
SliceSelection ==
    [ps |-> {ParamRec(MaxGen, Half, 0, 0, s, "uniform", sel, "exponential", 0, 0) :
                s \in 3 .. MaxNP, sel \in {"tournament", "truncated"}},
     scs |-> {ScenRec(pr, n, q, "int") :
                pr \in {"sphere", "lognan"}, n \in 3 .. MaxNP, q \in 0 .. MaxPopSeed},
     ties |-> {"stable", "reversed"}]
Universe == {SliceReinsertion, SliceOperators, SliceStochastic, SliceSelection}

TiesOf(U) == UNION {sl.ties : sl \in U}
ParamsOf(U, tie) == UNION {sl.ps : sl \in {s \in U : tie \in s.ties}}
ScensOf(U, p, tie) == UNION {sl.scs : sl \in {s \in U : tie \in s.ties /\ p \in s.ps}}

\* the steps of a running call of evolve
EvolveStep ==
    \/ GenBegin
    \/ Select
    \/ Crossover
    \/ Mutate
    \/ Evaluate
    \/ Reinsert

\* -------------------------------------------------------- specifications
\* One engine, constructed once, and one call of evolve on it.
Init == InitOver(TiesOf(Universe))
Next ==
    \/ pc = "new" /\ \E p \in ParamsOf(Universe, sortTie) : Construct(p)
    \/ Idle /\ calls < 1 /\ \E sc \in ScensOf(Universe, params, sortTie) : EvolveCall(sc)
    \/ EvolveStep
Spec == Init /\ [][Next]_vars

\* Calls of evolve on every kind of problem and population size, valid or not.
SliceValidation ==
    [ps |-> {ParamRec(g, Half, Half, el, s, "uniform", sel, xo, 0, 0) :
                g \in 0 .. 1, el \in 0 .. MaxNP + 1, s \in 1 .. MaxNP + 1,
                sel \in {"tournament", "truncated"},
                xo \in {"exponential", "binomial", "single", "sbx"}},
     scs |-> {ScenRec(pr, n, 0, "int") :
                pr \in {"sphere", "lognan", "noisy", "constr", "multi"}, n \in 0 .. MaxNP},
     ties |-> {"stable"}]
ValidationUniverse == {SliceValidation}
InitValid == InitOver(TiesOf(ValidationUniverse))
NextValid ==
    \/ pc = "new" /\ \E p \in ParamsOf(ValidationUniverse, sortTie) : Construct(p)
    \/ Idle /\ calls < 1 /\ \E sc \in ScensOf(ValidationUniverse, params, sortTie) : EvolveCall(sc)
    \/ EvolveStep
SpecValid == InitValid /\ [][NextValid]_vars

\* Two calls of evolve; between them the engine may be reseeded, or replaced by
\* a second engine constructed with the same arguments.
SliceSeed ==
    [ps |-> {ParamRec(g, Half, Half, 1, 2, "uniform", "tournament", xo, 0, sd) :
                g \in {1, MaxGen}, xo \in {"exponential", "sbx"}, sd \in 0 .. MaxSeed},
     scs |-> {ScenRec(pr, MaxNP, q, "frac") :
                pr \in {"sphere", "noisy"}, q \in 0 .. MaxPopSeed},
     ties |-> {"stable"}]
SeedUniverse == {SliceSeed}
InitSeed == InitOver(TiesOf(SeedUniverse))
NextSeed ==
    \/ pc = "new" /\ \E p \in ParamsOf(SeedUniverse, sortTie) : Construct(p)
    \/ pc = "done" /\ calls < 2 /\ Construct(params)
    \/ pc = "done" /\ calls < 2 /\ \E s \in 0 .. MaxSeed : SetSeed(s)
    \/ Idle /\ calls < 2 /\ \E sc \in ScensOf(SeedUniverse, params, sortTie) : EvolveCall(sc)
    \/ EvolveStep
SpecSeed == InitSeed /\ [][NextSeed]_vars

\* Calls of evolve on engines whose generation count goes up to the largest
\* value of an unsigned; a call is followed for UIntMod + 1 generations at most.
SliceWrap ==
    [ps |-> {ParamRec(g, Half, Half, 1, 2, "uniform", "tournament", xo, 0, sd) :
                g \in {1, 2, UIntMod - 1}, xo \in {"single", "exponential"},
                sd \in 0 .. MaxSeed},
     scs |-> {ScenRec("sphere", n, q, "frac") : n \in 2 .. 3, q \in 0 .. MaxPopSeed},
     ties |-> {"stable"}]
WrapUniverse == {SliceWrap}
InitWrap == InitOver(TiesOf(WrapUniverse))
NextWrap ==
    \/ pc = "new" /\ \E p \in ParamsOf(WrapUniverse, sortTie) : Construct(p)
    \/ Idle /\ calls < 1 /\ \E sc \in ScensOf(WrapUniverse, params, sortTie) : EvolveCall(sc)
    \/ ngen <= UIntMod /\ EvolveStep
SpecWrap == InitWrap /\ [][NextWrap]_vars

\* Construction alone, with arguments in and out of range.
CtorArgs ==
    [gen : {1},
     cr : {0 - 1, 0, Half, One, One + 1},
     eta_c : {Half, One, 100 * One - 1, 100 * One},
     m : {0 - 1, 0, One, One + 1},
     param_m : {0 - 1, 0, Half, One, 100 * One, 100 * One + 1},
     elitism : {1},
     param_s : {0, 1},
     mutation : {"gaussian", "uniform", "polynomial", "bogus"},
     selection : {"tournament", "truncated", "roulette"},
     crossover : {"exponential", "binomial", "single", "sbx", "geometric"},
     int_dim : {0},
     seed : {0}]
InitCtor == InitOver({"stable"})
NextCtor == pc = "new" /\ \E p \in CtorArgs : Construct(p)
SpecCtor == InitCtor /\ [][NextCtor]_vars

\* ---------------------------------------------------- vocabulary of claims
\* a generation of the current call has just been reinserted: pop is the new
\* population, popPrev the one reinsertion started from, XNEW/FNEW the offspring
AfterReinsert == pc \in {"gen_begin", "done"} /\ ngen > 0
\* evolve has been called and did not throw
Accepted == pc \in {"gen_begin", "select", "crossover", "mutate", "evaluate", "reinsert", "done"}
\* the permutations of the indices of F, ascending by less_than_f on F[.][0]
Rankings(F) ==
    {r \in [DOMAIN F -> DOMAIN F] :
        /\ \A a, b \in DOMAIN F : a # b => r[a] # r[b]
        /\ \A a, b \in DOMAIN F : a < b => ~less_than_f(F[r[b]][0], F[r[a]][0])}
\* the best (minimum) fitness of a population
BestF(p) ==
    CHOOSE v \in {p.f[k][0] : k \in DOMAIN p.f} :
        \A k \in DOMAIN p.f : ~less_than_f(p.f[k][0], v)
\* x lies in the box of pr, and its last idim coordinates are integral
InBox(x, pr) == \A j \in DOMAIN x : pr.lb[j] <= x[j] /\ x[j] <= pr.ub[j]
IntTail(x, idim) == \A j \in DOMAIN x : j >= Size(x) - idim => x[j] % One = 0
Feasible(X, pr, idim) == \A i \in DOMAIN X : InBox(X[i], pr) /\ IntTail(X[i], idim)

\* ------------------------------------------------------------------ C1
\* C1: after each generation, every slot i in [elitism, NP) holds the
\* offspring of rank (i - elitism) in the ascending fitness order of the NP
\* offspring, so that slots [elitism, NP) hold the best NP - elitism offspring.
C1_OffspringByRank ==
    AfterReinsert =>
        \E r \in Rankings(FNEW) :
            \A i \in DOMAIN pop.x :
                i >= alg.m_elitism =>
                    /\ pop.x[i] = XNEW[r[i - alg.m_elitism]]
                    /\ pop.f[i] = FNEW[r[i - alg.m_elitism]]

\* ------------------------------------------------------------------ C2
\* C2: after each generation, every slot i in [0, elitism) holds the decision
\* vector and the cached fitness of the i-th best individual of the population
\* reinsertion started from, and reinsertion evaluates no fitness: the
\* evaluations made so far are those of the re-evaluations and of the offspring.
C2_ElitesVerbatim ==
    AfterReinsert =>
        /\ \E r \in Rankings(popPrev.f) :
               \A i \in DOMAIN pop.x :
                   i < alg.m_elitism =>
                       /\ pop.x[i] = popPrev.x[r[i]]
                       /\ pop.f[i] = popPrev.f[r[i]]
        /\ fevals = fev_in + ngen * NP * (IF Prob.stochastic THEN 2 ELSE 1)
\* an elite slot received an individual that an earlier slot had overwritten
C2_Witness ==
    /\ AfterReinsert
    /\ alg.m_elitism >= 2
    /\ pop.x[1] = popPrev.x[0]
    /\ pop.x[0] # popPrev.x[0]

\* ------------------------------------------------------------------ C3
\* C3: for a non-stochastic problem and elitism >= 1, the best fitness of the
\* population after a generation is not worse than the best fitness before it.
C3_BestNeverWorse ==
    (AfterReinsert /\ ~Prob.stochastic /\ alg.m_elitism >= 1) =>
        ~less_than_f(BestF(popPrev), BestF(pop))
\* every offspring of the generation was strictly worse than the best parent
C3_Witness ==
    /\ AfterReinsert
    /\ ~Prob.stochastic
    /\ alg.m_elitism >= 1
    /\ ngen >= 2
    /\ \A i \in DOMAIN FNEW : less_than_f(BestF(popPrev), FNEW[i][0])

\* ------------------------------------------------------------------ C4
\* C4: the population has the size it had on entry after every generation of
\* evolve and on return.
C4_SizePreserved ==
    (Accepted \/ pc = "failed") =>
        /\ Size(pop.x) = Size(in0.x)
        /\ Size(pop.f) = Size(in0.x)
        /\ DOMAIN pop.x = 0 .. Size(in0.x) - 1
\* a call has returned after at least two generations
C4_Witness == pc = "done" /\ ngen >= 2 /\ Size(pop.x) = MaxNP /\ pop # in0

\* ------------------------------------------------------------------ C5
\* C5: if every individual of the input lies within [lb, ub] and has integer
\* values in its last int_dim coordinates, so does every offspring after
\* crossover and after mutation, and every individual after every generation.
C5_FeasibleKept ==
    (Accepted /\ Feasible(in0.x, Prob, alg.m_int_dim)) =>
        /\ Feasible(pop.x, Prob, alg.m_int_dim)
        /\ Feasible(XNEW, Prob, alg.m_int_dim)
        /\ Feasible(XCROSS, Prob, alg.m_int_dim)
\* sbx with an integer part made an offspring that is no copy of a parent, and
\* uniform mutation then changed it
C5_Witness ==
    /\ pc = "evaluate"
    /\ alg.m_crossover = "SBX"
    /\ alg.m_mutation = "UNIFORM"
    /\ alg.m_int_dim >= 1
    /\ Feasible(in0.x, Prob, alg.m_int_dim)
    /\ \E i \in DOMAIN XCROSS : \A k \in DOMAIN XSEL : XCROSS[i] # XSEL[k]
    /\ XNEW # XCROSS

\* ------------------------------------------------------------------ C6
\* C6: uniform mutation replaces each continuous coordinate with probability
\* m and leaves it unchanged otherwise; with m = 0 perform_mutation leaves
\* every offspring unchanged.
C6_MutationRate ==
    (pc = "evaluate" /\ alg.m_mutation = "UNIFORM" /\ alg.m_m = 0) => XNEW = XCROSS

\* ------------------------------------------------------------------ C7
\* the input of the current call violates one of evolve's requirements
Invalid ==
    \/ Prob.nc # 0
    \/ Prob.nf # 1
    \/ Size(in0.x) < 2
    \/ alg.m_elitism > Size(in0.x)
    \/ alg.m_param_s > Size(in0.x)
    \/ (alg.m_crossover = "SBX" /\ Size(in0.x) % 2 = 1)
Called == pc \notin {"new", "ctor_failed", "idle"}
\* C7: evolve fails whenever the problem has constraints or several objectives,
\* NP < 2, elitism > NP, param_s > NP, or the crossover is sbx and NP is odd,
\* also with gen = 0; no fitness has then been evaluated, no random number
\* drawn and no individual modified.
C7_InvalidRejected ==
    (Called /\ Invalid) =>
        /\ pc = "failed"
        /\ fevals = fev_in
        /\ m_e = e_in
        /\ pop = in0
\* a call with gen = 0 failed on the parity of the population alone
C7_Witness ==
    /\ pc = "failed"
    /\ alg.m_gen = 0
    /\ alg.m_crossover = "SBX"
    /\ Size(in0.x) = 3
    /\ alg.m_elitism <= 3
    /\ alg.m_param_s <= 3
    /\ Prob.nc = 0
    /\ Prob.nf = 1

\* ------------------------------------------------------------------ C8
\* C8: with gen = 0 and an input that passes validation, evolve returns the
\* input population unchanged, evaluates no fitness and draws no random number.
C8_GenZeroIdentity ==
    (Called /\ alg.m_gen = 0 /\ ~Invalid) =>
        /\ pc = "done"
        /\ pop = in0
        /\ fevals = fev_in
        /\ m_e = e_in
\* a call with gen = 0 returned a population of the largest size, with
\* elitism equal to the population size
C8_Witness ==
    /\ pc = "done"
    /\ alg.m_gen = 0
    /\ Size(in0.x) = MaxNP
    /\ alg.m_elitism = MaxNP
    /\ pop = in0

\* ------------------------------------------------------------------ C9
\* the current call was made on a freshly seeded engine, with the seed and
\* the input of the first such call
SameSeedAndInput ==
    /\ freshIn
    /\ ref.set
    /\ ref.seed = m_seed
    /\ ref.scen = scen
    /\ ref.tie = sortTie
\* C9: on a non-stochastic problem, a call of evolve on a freshly seeded engine
\* (constructed with seed s, or after set_seed(s)) returns the population that
\* the first call on an engine freshly seeded with s returned for that input.
C9_SeedDeterminism ==
    (pc = "done" /\ SameSeedAndInput /\ ~Prob.stochastic) => pop = ref.out
\* a second call, after reseeding, drew random numbers and returned the
\* population of the first call
C9_Witness ==
    /\ pc = "done"
    /\ calls = 2
    /\ SameSeedAndInput
    /\ ~Prob.stochastic
    /\ m_e # e_in
    /\ pop # in0
    /\ pop = ref.out

\* ------------------------------------------------------------------ C10
\* C10: construction with cr outside [0, 1) fails: cr = 1 is rejected, as is
\* every cr < 0 and every cr > 1.
C10_CrHalfOpen ==
    (pc # "new" /\ (params.cr < 0 \/ params.cr >= One)) => pc = "ctor_failed"

\* ------------------------------------------------------------------ C11
\* an argument other than cr is one the constructor must refuse
BadArgs(p) ==
    \/ p.eta_c < One \/ p.eta_c >= 100 * One
    \/ p.m < 0 \/ p.m > One
    \/ p.param_s = 0
    \/ p.mutation \notin {"gaussian", "uniform", "polynomial"}
    \/ p.selection \notin {"tournament", "truncated"}
    \/ p.crossover \notin {"exponential", "binomial", "sbx", "single"}
    \/ (p.mutation = "polynomial" /\ (p.param_m < One \/ p.param_m > 100 * One))
    \/ (p.mutation \in {"gaussian", "uniform"} /\ (p.param_m < 0 \/ p.param_m > One))
\* the enumerated kinds of a constructed engine are those its names denote
KindsMatch(p, a) ==
    /\ a.m_mutation = (IF p.mutation = "gaussian" THEN "GAUSSIAN"
                       ELSE IF p.mutation = "uniform" THEN "UNIFORM" ELSE "POLYNOMIAL")
    /\ a.m_selection = (IF p.selection = "tournament" THEN "TOURNAMENT" ELSE "TRUNCATED")
    /\ a.m_crossover = (IF p.crossover = "exponential" THEN "EXPONENTIAL"
                        ELSE IF p.crossover = "binomial" THEN "BINOMIAL"
                        ELSE IF p.crossover = "sbx" THEN "SBX" ELSE "SINGLE")
AfterSelect == pc = "crossover"
\* the individuals of F strictly better than individual a
Better(F, a) == {b \in DOMAIN F : less_than_f(F[b][0], F[a][0])}
\* C12: truncated selection gives offspring slot i the (i mod param_s)-th entry
\* of the indices sorted ascending by fitness: every selected parent is one of
\* the param_s best individuals, each of those is selected, and with
\* param_s = NP the result is a permutation of 0..NP-1.
C12_TruncatedCyclic ==
    (AfterSelect /\ alg.m_selection = "TRUNCATED") =>
        /\ DOMAIN selected_idx = DOMAIN FNEW
        /\ \E r \in Rankings(FNEW) :
               /\ \A i \in DOMAIN FNEW : selected_idx[i] = r[i % alg.m_param_s]
               /\ {selected_idx[i] : i \in DOMAIN FNEW} = {r[k] : k \in 0 .. alg.m_param_s - 1}
        /\ \A i \in DOMAIN FNEW :
               Cardinality(Better(FNEW, selected_idx[i])) < alg.m_param_s
        /\ alg.m_param_s = Size(FNEW) =>
               {selected_idx[i] : i \in DOMAIN FNEW} = DOMAIN FNEW
        /\ \A i \in DOMAIN FNEW : XNEW[i] = pop.x[selected_idx[i]]
\* truncated selection wrapped around: a population larger than param_s, whose
\* best individual is not the first, gave two offspring slots the same parent
C12_Witness ==
    /\ AfterSelect
    /\ alg.m_selection = "TRUNCATED"
    /\ alg.m_param_s = 3
    /\ Size(FNEW) = 4
    /\ selected_idx[3] = selected_idx[0]
    /\ selected_idx[0] # 0
    /\ Cardinality({selected_idx[i] : i \in DOMAIN FNEW}) = 3

\* ------------------------------------------------------------------ C13
\* v is a permutation of 0..n-1
IsPermutation(v, n) ==
    /\ DOMAIN v = 0 .. n - 1
    /\ {v[k] : k \in DOMAIN v} = 0 .. n - 1
\* the entrant at scan position k of the tournament of offspring slot j
Entrant(j, k) == tourn[j][k]
\* the scan positions of tournament j whose entrant no entrant beats
MinimalPositions(j) ==
    {k \in 0 .. alg.m_param_s - 1 :
        \A h \in 0 .. alg.m_param_s - 1 :
            ~less_than_f(FNEW[Entrant(j, h)][0], FNEW[Entrant(j, k)][0])}
\* the entrants of every tournament are pairwise distinct population indices,
\* and best_idxs stays a permutation of 0..NP-1 across the tournaments
EntrantsDistinct ==
    \A j \in DOMAIN FNEW :
        /\ IsPermutation(tourn[j], Size(FNEW))
        /\ \A h, k \in 0 .. alg.m_param_s - 1 : h # k => Entrant(j, h) # Entrant(j, k)
\* the parent of every slot is the first entrant, in scan order, of minimal fitness
WinnerIsFirstMinimum ==
    \A j \in DOMAIN FNEW :
        /\ MinimalPositions(j) # {}
        /\ \E k \in MinimalPositions(j) :
               /\ selected_idx[j] = Entrant(j, k)
               /\ \A h \in MinimalPositions(j) : k <= h
\* some fitness of the list selection ran on is NaN
HasNaN(F) == \E i \in DOMAIN F : F[i][0] = NaN
\* C13: in tournament selection the param_s entrants of every offspring slot
\* are pairwise distinct valid population indices, the index array staying a
\* permutation of 0..NP-1 across the tournaments, and the parent returned is
\* the entrant of minimal fitness, the first such in scan order.
C13_TournamentMin ==
    (AfterSelect /\ alg.m_selection = "TOURNAMENT") =>
        (EntrantsDistinct /\ WinnerIsFirstMinimum)

\* ------------------------------------------------------------------ C14
\* crossover has just run: xlog is what it drew, XCROSS its result
AfterCrossover == pc = "mutate"
\* the offspring slots that head a couple of the sbx loop
Couples == {i \in DOMAIN xlog : i % 2 = 0}
\* the first coordinate of the trailing integer block
IntBlockStart == Prob.nx - alg.m_int_dim
\* C14: with int_dim >= 1 the two-point crossover of sbx_crossover_impl touches
\* the trailing integer block [dim - int_dim, dim) only: the continuous prefix
\* of each child keeps the values the simulated binary step gave it, every
\* coordinate of the block is either kept from the child's own parent or
\* exchanged between the two children, and when no coin flip succeeds each
\* child keeps its own parent's integer block.
C14_IntegerBlockOnly ==
    (AfterCrossover /\ alg.m_crossover = "SBX" /\ alg.m_int_dim >= 1) =>
        \A i \in Couples :
            LET c == xlog[i]
            IN  /\ \A j \in 0 .. IntBlockStart - 1 :
                       c.child1[j] = c.cont1[j] /\ c.child2[j] = c.cont2[j]
                /\ \A j \in IntBlockStart .. Prob.nx - 1 :
                       \/ c.child1[j] = c.parent1[j] /\ c.child2[j] = c.parent2[j]
                       \/ c.child1[j] = c.parent2[j] /\ c.child2[j] = c.parent1[j]
                /\ c.hits = 0 =>
                       \A j \in IntBlockStart .. Prob.nx - 1 :
                           c.child1[j] = c.parent1[j] /\ c.child2[j] = c.parent2[j]

\* ------------------------------------------------------------------ C15
\* the index of the partner drawn for offspring i
Partner(i) == xlog[i].all_idx[xlog[i].partner_idx]
\* the partner of offspring i is drawn from positions 1..NP-1 of the index
\* permutation as the swap of positions 0 and i left it, and the values copied
\* into the child are those of the partner in the pre-crossover copy of X
PartnerDrawn(i) ==
    /\ xlog[i].all_idx = Copy(AllIdxAt(Size(XSEL), i))
    /\ IsPermutation(xlog[i].all_idx, Size(XSEL))
    /\ xlog[i].partner_idx \in 1 .. Size(XSEL) - 1
    /\ \A j \in DOMAIN XCROSS[i] :
           XCROSS[i][j] = XSEL[i][j] \/ XCROSS[i][j] = XSEL[Partner(i)][j]
    /\ alg.m_crossover \in {"EXPONENTIAL", "BINOMIAL"} =>
           \E j \in DOMAIN XCROSS[i] : XCROSS[i][j] = XSEL[Partner(i)][j]
\* C15 (original): the partner of offspring i is drawn from positions 1..NP-1
\* of the permutation after the swap of positions 0 and i, and read from the
\* pre-crossover copy of X; the partner of offspring 0 is never index 0, while
\* for some offspring slot i >= 1 some draw of the engine gives the partner
\* index i.
C15_SelfPairingPossible ==
    (AfterCrossover /\ alg.m_crossover # "SBX") =>
        /\ \A i \in DOMAIN XCROSS : PartnerDrawn(i)
        /\ Partner(0) # 0
        /\ \E i \in 1 .. Size(XSEL) - 1 :
               \E e \in 0 .. RngMod - 1 : PartnerOf(Size(XSEL), i, e) = i
\* C15 (amended): the partner of offspring i is drawn from positions 1..NP-1
\* of the permutation after the swap of positions 0 and i, and read from the
\* pre-crossover copy of X; position 0 then holds i, so the partner of
\* offspring i is never index i, for i = 0 and for every i >= 1.
C15_PartnerNeverSelf ==
    (AfterCrossover /\ alg.m_crossover # "SBX") =>
        \A i \in DOMAIN XCROSS :
            /\ PartnerDrawn(i)
            /\ xlog[i].all_idx[0] = i
            /\ Partner(i) # i
\* an offspring received a value of its partner that the partner's own slot had
\* already lost to its crossover, the position drawn being the offspring's own
C15_Witness ==
    /\ AfterCrossover
    /\ alg.m_crossover # "SBX"
    /\ \E i \in 1 .. Size(XSEL) - 1 :
           /\ Partner(i) < i
           /\ xlog[i].partner_idx = i
           /\ \E j \in DOMAIN XCROSS[i] :
                  /\ XCROSS[i][j] = XSEL[Partner(i)][j]
                  /\ XCROSS[i][j] # XSEL[i][j]
                  /\ XCROSS[i][j] # XCROSS[Partner(i)][j]

\* ------------------------------------------------------------------ C16
\* coordinate j lies in the cyclic block of L coordinates that starts at n
InBlock(j, n, L, dim) == ((j - n + dim) % dim) < L
\* C16: exponential crossover copies L partner coordinates into each child,
\* 1 <= L <= dim, from a start coordinate n in [0, dim): the coordinates
\* copied are exactly the cyclic block n, n+1, .., n+L-1 (mod dim), every
\* other coordinate of the child is unchanged, and with cr = 0 exactly one
\* coordinate, n, is copied.
C16_ExponentialBlock ==
    (AfterCrossover /\ alg.m_crossover = "EXPONENTIAL") =>
        \A i \in DOMAIN XCROSS :
            LET n == xlog[i].n
                L == xlog[i].L
                dim == Size(XSEL[i])
            IN  /\ n \in 0 .. dim - 1
                /\ L \in 1 .. dim
                /\ \A j \in DOMAIN XCROSS[i] :
                       XCROSS[i][j] = IF InBlock(j, n, L, dim) THEN XSEL[Partner(i)][j]
                                                              ELSE XSEL[i][j]
                /\ alg.m_cr = 0 => L = 1
\* a block of two coordinates wrapped around the end of a child of three, and
\* changed both
C16_Witness ==
    /\ AfterCrossover
    /\ alg.m_crossover = "EXPONENTIAL"
    /\ \E i \in DOMAIN XCROSS :
           /\ Size(XSEL[i]) = 3
           /\ xlog[i].n = 2
           /\ xlog[i].L = 2
           /\ XCROSS[i][2] # XSEL[i][2]
           /\ XCROSS[i][0] # XSEL[i][0]
           /\ XCROSS[i][1] = XSEL[i][1]
           /\ XCROSS[i][1] # XSEL[Partner(i)][1]

\* ------------------------------------------------------------------ C17
\* C17: for every gen >= 1 an unsigned can hold, its largest value included,
\* evolve on a valid input runs the generation pipeline exactly gen times and
\* then returns: it never starts a generation beyond the gen-th, it has
\* returned once gen generations are complete, and on a non-stochastic problem
\* it has then made exactly gen * NP fitness evaluations.
C17_ExactlyGen ==
    (Called /\ ~Invalid /\ alg.m_gen >= 1) =>
        /\ ngen <= alg.m_gen
        /\ ngen = alg.m_gen => pc = "done"
        /\ pc = "done" => ngen = alg.m_gen
        /\ (pc = "done" /\ ~Prob.stochastic) => fevals = fev_in + alg.m_gen * NP

\* ------------------------------------------------------------------ C18
\* every cached fitness of p is the problem's fitness of the vector in its slot
Consistent(p) == \A i \in DOMAIN p.x : p.f[i] = Fitness(Prob, pseed, p.x[i])
\* C18: on a non-stochastic problem whose input population has consistent
\* cached fitness, the population is consistent after every generation, in
\* elite and offspring slots alike, and each offspring enters reinsertion with
\* the fitness of its vector after crossover and mutation.
C18_CachedFitness ==
    (Accepted /\ ~Prob.stochastic /\ Consistent(in0)) =>
        /\ Consistent(pop)
        /\ pc = "reinsert" => Consistent([x |-> XNEW, f |-> FNEW])
\* after a generation, an offspring slot holds a vector that mutation changed,
\* and changed in fitness, next to an elite slot
C18_Witness ==
    /\ AfterReinsert
    /\ ~Prob.stochastic
    /\ alg.m_elitism >= 1
    /\ alg.m_elitism < NP
    /\ \E i \in DOMAIN pop.x : \E k \in DOMAIN XNEW :
           /\ i >= alg.m_elitism
           /\ pop.x[i] = XNEW[k]
           /\ pop.f[i] = FNEW[k]
           /\ XNEW[k] # XCROSS[k]
           /\ FNEW[k] # Fitness(Prob, pseed, XCROSS[k])

====
